---- MODULE Spec2Model ----
(***************************************************************************)
(* Model of the loop execution engine of loop-slack (src/src/loop.ts), the *)
(* loop rows it persists (db.ts) and the handlers of index.ts that call    *)
(* it.  The JavaScript runtime is single threaded: an action of the model  *)
(* is the code that runs between two awaits (or inside one event handler), *)
(* so a promise continuation is part of the action of the event that       *)
(* settles the promise.                                                    *)
(***************************************************************************)
EXTENDS Integers, Sequences, FiniteSets, TLC

VARIABLES
  config,           \* config.ts: is the repo configured, is there a Factory key
  db,               \* db.ts table loops: loop id -> row, or NoRow
  starting,         \* index.ts: loop id -> the start handler created the row
                    \*   and has not yet called startLoopWithCallbacks
  drivers,          \* startLoop invocations in flight: slot -> frame
  activeProcesses,  \* loop.ts:10 Map loopId -> process (its driver slot), 0 = no entry
  approving,        \* loop id -> approveAndContinue calls awaiting github.mergePR
  spawned,          \* loop id -> number of droid processes spawned so far
  invoked,          \* the observer hooks (LoopCallbacks) called by the latest step, in order
  last              \* the call made by the latest step and what it returned

vars == <<config, db, starting, drivers, activeProcesses, approving, spawned, invoked, last>>

----------------------------------------------------------------------------
(* Bounds of the model *)

MaxIterationInput == 2   \* largest value typed into the Max Iterations field
MaxDrivers == 2          \* startLoop invocations in flight at once
MaxApproving == 1        \* approve calls awaiting the merge at once
MaxSpawns == 3           \* processes spawned per loop

(* Program constants *)

DefaultIterationMax == 10
FirstIteration == 1
TailLength == 500        \* fullOutput.slice(-500)
max_parallel_loops == 3  \* config.ts: concurrency defaults
max_per_repo == 1

LoopIds == {"L1"}
Slots == 1..MaxDrivers
NoRow == [status |-> "none"]
Modes == {"auto", "approval"}
Null == -1               \* SQL NULL / JavaScript null in an INTEGER column

----------------------------------------------------------------------------
(* Output of the agent process, as a sequence of tokens *)

Tok(t, n) == [t |-> t, n |-> n]
DoneOpen == Tok("<done>", 0)
DoneClose == Tok("</done>", 0)
Text == Tok("text", 0)
PrUrl(n) == Tok("https://github.com/o/r/pull/", n)
Hash(n) == Tok("#", n)

Outputs ==
  { <<Text>>,
    <<DoneOpen, Tok("COMPLETE", 0), DoneClose>>,
    <<Text, DoneOpen, Tok("NO_TASKS", 0), DoneClose>>,
    <<DoneOpen, Tok("FAILED", 0), DoneClose>>,
    <<PrUrl(42), Hash(7)>>,
    <<Text, PrUrl(42)>>,
    <<Hash(7), PrUrl(42), DoneOpen, Tok("COMPLETE", 0), DoneClose>> }

ExitCodes == {0, 1}      \* 1 stands for any nonzero code or a signal (null)

\* String.prototype.includes on token sequences
includes(out, pat) ==
  \E k \in 1..(Len(out) - Len(pat) + 1) : SubSeq(out, k, k + Len(pat) - 1) = pat

\* index of the first token of kind t, 0 when there is none (RegExp match)
FirstOf(out, t) ==
  IF \E k \in 1..Len(out) : out[k].t = t
  THEN CHOOSE k \in 1..Len(out) : out[k].t = t /\ \A j \in 1..(k - 1) : out[j].t # t
  ELSE 0

\* a regular expression that matches at the first token of any output
prMatch_first(out) == 1

prMatch(out) == FirstOf(out, "https://github.com/o/r/pull/")
issueMatch(out) == FirstOf(out, "#")
prNumber(out) == out[prMatch(out)].n
\* an issue lookup that never finds a number
issueNumber_none(out) == Null

issueNumber(out) == IF issueMatch(out) # 0 THEN out[issueMatch(out)].n ELSE Null

hasSentinel(out) ==
  \/ includes(out, <<DoneOpen, Tok("COMPLETE", 0), DoneClose>>)
  \/ includes(out, <<DoneOpen, Tok("NO_TASKS", 0), DoneClose>>)

\* runIteration's close handler: resolve or reject
runSucceeded(code, out) == code = 0 \/ includes(out, <<DoneOpen>>)

\* String.prototype.slice(-n)
sliceLast(out, n) == SubSeq(out, IF Len(out) > n THEN Len(out) - n + 1 ELSE 1, Len(out))

\* the messages of the errors runIteration rejects with
NoError == [msg |-> "null", code |-> 0, tail |-> <<>>]
DroidExited(code, out) ==
  [msg |-> "Droid exited with code", code |-> code, tail |-> sliceLast(out, TailLength)]
SpawnError == [msg |-> "spawn error", code |-> 0, tail |-> <<>>]

----------------------------------------------------------------------------
(* db.ts *)

createLoop(mode, iteration_max) ==
  [status |-> "pending", mode |-> mode,
   current_issue |-> Null, current_pr |-> Null,
   iteration_current |-> 0,
   iteration_max |-> IF iteration_max = 0 THEN DefaultIterationMax ELSE iteration_max,
   error |-> NoError, completed |-> FALSE]

\* an UPDATE without its WHERE clause
updateLoop_everyRow(D, l, f, v) ==
  [x \in DOMAIN D |-> IF D[x] = NoRow THEN D[x] ELSE [D[x] EXCEPT ![f] = v]]

\* UPDATE loops SET ... WHERE id = ? : no row matched, nothing written
updateLoop(D, l, f, v) ==
  IF D[l] = NoRow THEN D ELSE [D EXCEPT ![l] = [D[l] EXCEPT ![f] = v]]

completeLoop(D, l) == updateLoop(updateLoop(D, l, "status", "complete"), l, "completed", TRUE)

failLoop(D, l, msg) ==
  updateLoop(updateLoop(updateLoop(D, l, "status", "error"), l, "error", msg), l, "completed", TRUE)

\* a stopLoop that stamps completed_at and forgets the status
stopLoop_noStatus(D, l) == updateLoop(D, l, "completed", TRUE)

stopLoop(D, l) == updateLoop(updateLoop(D, l, "status", "stopped"), l, "completed", TRUE)

\* a status list that leaves out the loops waiting for approval
ActiveStatuses_noWaiting == {"running", "pending", "paused"}

\* a status list that takes a stopped loop for one still to be stopped
ActiveStatuses_withStopped == {"running", "pending", "paused", "waiting_approval", "stopped"}

ActiveStatuses == {"running", "pending", "paused", "waiting_approval"}

\* db.ts getActiveLoops, and getLoopsForRepo for the one repository that all
\* the loops of the model belong to
getActiveLoops(D) == {l \in DOMAIN D : D[l].status \in ActiveStatuses}
getLoopsForRepo(D) == getActiveLoops(D)
TerminalStatuses == {"complete", "error", "stopped"}

----------------------------------------------------------------------------
(* Frames of startLoop *)

Idle == [pc |-> "idle", loopId |-> "none", i |-> 0, iteration_max |-> 0,
         mode |-> "none", cb |-> FALSE, signalled |-> FALSE]

FreeSlots == {s \in Slots : drivers[s].pc = "idle"}
FreeSlot == CHOOSE s \in FreeSlots : \A t \in FreeSlots : s <= t

\* a check that forgets the Factory key
ConfigOk_repoOnly == config.repo

\* loop.ts 26-30: getRepo and getFactoryKey both return something
ConfigOk == config.repo /\ config.key

\* startLoop up to its first await: the row is read once, the config is
\* checked, ensureWorkspace starts its git command.  A throw rejects the
\* promise, which every caller only logs.
startLoopEntry(D, l, cb, drv) ==
  IF D[l] = NoRow \/ ~ConfigOk
  THEN drv
  ELSE [drv EXCEPT ![FreeSlot] =
          [pc |-> "workspace", loopId |-> l, i |-> 0,
           iteration_max |-> D[l].iteration_max, mode |-> D[l].mode,
           cb |-> cb, signalled |-> FALSE]]

startLoopNeedsSlot(D, l) == D[l] # NoRow /\ ConfigOk

\* the latest call, what it returned, and the call it came right after
Call(op, l, ret) == [op |-> op, loopId |-> l, ret |-> ret, after |-> <<last.op, last.ret>>]

----------------------------------------------------------------------------
\* the program after construction, with the loop ids of ids still to be used
InitFor(ids) ==
  /\ config \in [repo : BOOLEAN, key : BOOLEAN]
  /\ db = [l \in ids |-> NoRow]
  /\ starting = [l \in ids |-> FALSE]
  /\ drivers = [s \in Slots |-> Idle]
  /\ activeProcesses = [l \in ids |-> 0]
  /\ approving = [l \in ids |-> 0]
  /\ spawned = [l \in ids |-> 0]
  /\ invoked = <<>>
  /\ last = [op |-> "none", loopId |-> "none", ret |-> "none", after |-> <<"none", "none">>]

Init == InitFor(LoopIds)

IterationInputs == (-1)..MaxIterationInput

\* index.ts 170-175: the concurrency check of start_loop_modal, which logs a
\* warning and goes on
checkConcurrency(D) ==
  IF Cardinality(getLoopsForRepo(D)) >= max_per_repo THEN "ok, warned" ELSE "ok"

\* index.ts start_loop_modal: parse the form, create the row
CreateLoop(l, mode, iterations) ==
  /\ db[l] = NoRow
  /\ db' = [db EXCEPT ![l] = createLoop(mode, iterations)]
  /\ starting' = [starting EXCEPT ![l] = TRUE]
  /\ last' = Call("createLoop", l, checkConcurrency(db))
  /\ invoked' = <<>>
  /\ UNCHANGED <<config, drivers, activeProcesses, approving, spawned>>

\* index.ts start_loop_modal, after the initial message: startLoopWithCallbacks
StartLoopWithCallbacks(l) ==
  /\ starting[l]
  /\ startLoopNeedsSlot(db, l) => FreeSlots # {}
  /\ starting' = [starting EXCEPT ![l] = FALSE]
  /\ drivers' = startLoopEntry(db, l, TRUE, drivers)
  /\ last' = Call("startLoop", l, IF ConfigOk THEN "ok" ELSE "throws")
  /\ invoked' = <<>>
  /\ UNCHANGED <<config, db, activeProcesses, approving, spawned>>

----------------------------------------------------------------------------
(* startLoop after the workspace: the for loop and what follows it *)

Effect(D, drv, reg, spawn, hooks) ==
  [db |-> D, drivers |-> drv, reg |-> reg, spawn |-> spawn, hooks |-> hooks]

\* loop.ts 100-106: after the for loop
afterLoop(D, l) == IF D[l].status = "running" THEN completeLoop(D, l) ELSE D
afterLoopHooks(D, l) == IF D[l].status = "running" THEN <<"onComplete">> ELSE <<>>

\* a status check that only knows paused
haltsDriving_pausedOnly(status) == status = "paused"

\* loop.ts 46-55: the status read at the head of every iteration
haltsDriving(status) == status \in {"stopped", "paused", "waiting_approval"}

\* loop.ts 42-61: the head of iteration i of the invocation in slot s, up to
\* the await of runIteration (spawn, then activeProcesses.set)
iterate(D, s, i, reg, hooks) ==
  LET l == drivers[s].loopId IN
  IF i > drivers[s].iteration_max \/ haltsDriving(D[l].status)
  THEN Effect(afterLoop(D, l), [drivers EXCEPT ![s] = Idle], reg, FALSE,
              hooks \o afterLoopHooks(D, l))
  ELSE Effect(updateLoop(D, l, "iteration_current", i),
              [drivers EXCEPT ![s] = [@ EXCEPT !.pc = "process", !.i = i, !.signalled = FALSE]],
              [reg EXCEPT ![l] = s], TRUE, hooks)

\* loop.ts 36-39: mark as running (onStart of index.ts writes status running again)
markRunning(D, l) == updateLoop(D, l, "status", "running")

\* callbacks.onX?.(...): a hook is called when the invocation was given one;
\* startLoopWithCallbacks gives all of them, approve and skip give none
observed(s, hooks) == IF drivers[s].cb THEN hooks ELSE <<>>

\* spawned counts the processes of a loop up to MaxSpawns; a loop whose
\* count is Null is not counted (and not bounded)
counted(l) == spawned[l] # Null

Apply(e, l) ==
  /\ (e.spawn /\ counted(l)) => spawned[l] < MaxSpawns
  /\ db' = e.db
  /\ drivers' = e.drivers
  /\ activeProcesses' = e.reg
  /\ spawned' = IF e.spawn /\ counted(l) THEN [spawned EXCEPT ![l] = @ + 1] ELSE spawned

\* loop.ts 36-41: mark as running, call onStart, enter the for loop
started(D, s) ==
  iterate(markRunning(D, drivers[s].loopId), s, FirstIteration, activeProcesses, <<"onStart">>)

\* loop.ts 39 when onStart (index.ts 387-389, a plain function that writes
\* the row) throws: startLoop throws after line 37
startAborted(D, s) ==
  Effect(markRunning(D, drivers[s].loopId), [drivers EXCEPT ![s] = Idle],
         activeProcesses, FALSE, <<"onStart">>)

\* ensureWorkspace settles: on failure startLoop throws, on success it marks
\* the loop running, calls onStart (which returns or throws) and enters the
\* for loop
WorkspaceDone(s, ok, onStartReturns) ==
  LET l == drivers[s].loopId IN
  /\ drivers[s].pc = "workspace"
  /\ ~onStartReturns => ok /\ drivers[s].cb
  /\ IF ok
     THEN LET e == IF onStartReturns THEN started(db, s) ELSE startAborted(db, s)
          IN Apply(e, l) /\ invoked' = observed(s, e.hooks)
     ELSE /\ drivers' = [drivers EXCEPT ![s] = Idle]
          /\ invoked' = <<>>
          /\ UNCHANGED <<db, activeProcesses, spawned>>
  /\ last' = Call("ensureWorkspace", l,
                  IF ~ok THEN "throws" ELSE IF onStartReturns THEN "ok" ELSE "ok, onStart throws")
  /\ UNCHANGED <<config, starting, approving>>

needsApproval_always(mode) == TRUE

\* loop.ts 81: a pull request suspends the loop in approval mode only
needsApproval(mode) == mode = "approval"

\* loop.ts 62-89: what startLoop does with the output of a resolved runIteration
classify(D, s, out, reg) ==
  LET l == drivers[s].loopId IN
  IF hasSentinel(out)
  THEN Effect(completeLoop(D, l), [drivers EXCEPT ![s] = Idle], reg, FALSE,
              <<"onIteration", "onComplete">>)
  ELSE IF prMatch(out) # 0
  THEN LET D2 == updateLoop(updateLoop(D, l, "current_pr", prNumber(out)),
                            l, "current_issue", issueNumber(out))
       IN IF needsApproval(drivers[s].mode)
          THEN Effect(updateLoop(D2, l, "status", "waiting_approval"),
                      [drivers EXCEPT ![s] = Idle], reg, FALSE,
                      <<"onIteration", "onWaitingApproval">>)
          ELSE iterate(D2, s, drivers[s].i + 1, reg, <<"onIteration", "onTaskComplete">>)
  ELSE iterate(D, s, drivers[s].i + 1, reg, <<"onIteration">>)

\* loop.ts 91-97: the catch block of an iteration
fail(D, s, msg, reg) ==
  Effect(failLoop(D, drivers[s].loopId, msg), [drivers EXCEPT ![s] = Idle], reg, FALSE,
         <<"onError">>)

\* loop.ts 145-154 then 62-97: the process closes
ProcessClose(s, code, out) ==
  LET l == drivers[s].loopId
      reg == [activeProcesses EXCEPT ![l] = 0]
  IN
  /\ drivers[s].pc = "process"
  /\ LET e == IF runSucceeded(code, out)
              THEN classify(db, s, out, reg)
              ELSE fail(db, s, DroidExited(code, out), reg)
     IN Apply(e, l) /\ invoked' = observed(s, e.hooks)
  /\ last' = Call("close", l, IF runSucceeded(code, out) THEN "resolve" ELSE "reject")
  /\ UNCHANGED <<config, starting, approving>>

\* loop.ts 156-159: the process could not be spawned
ProcessError(s) ==
  LET l == drivers[s].loopId
      reg == [activeProcesses EXCEPT ![l] = 0]
  IN
  /\ drivers[s].pc = "process"
  /\ ~drivers[s].signalled
  /\ LET e == fail(db, s, SpawnError, reg)
     IN Apply(e, l) /\ invoked' = observed(s, e.hooks)
  /\ last' = Call("error", l, "reject")
  /\ UNCHANGED <<config, starting, approving>>

----------------------------------------------------------------------------
(* The requests of the approval controller *)

\* loop.ts 181-198
StopLoopProcess(l) ==
  LET proc == activeProcesses[l] IN
  /\ IF proc # 0
     THEN /\ drivers' = [drivers EXCEPT ![proc].signalled = TRUE]
          /\ activeProcesses' = [activeProcesses EXCEPT ![l] = 0]
          /\ db' = stopLoop(db, l)
          /\ last' = Call("stop", l, "true")
     ELSE IF db[l] # NoRow /\ db[l].status \in ActiveStatuses
     THEN /\ db' = stopLoop(db, l)
          /\ last' = Call("stop", l, "true")
          /\ UNCHANGED <<drivers, activeProcesses>>
     ELSE /\ last' = Call("stop", l, "false")
          /\ UNCHANGED <<db, drivers, activeProcesses>>
  /\ invoked' = <<>>
  /\ UNCHANGED <<config, starting, approving, spawned>>

\* a guard that lets a running loop through
notWaitingForApproval_lax(D, l) ==
  D[l] = NoRow \/ D[l].status \notin {"waiting_approval", "running"}

\* loop.ts 202 and 230: the guard of approve and skip
notWaitingForApproval(D, l) == D[l] = NoRow \/ D[l].status # "waiting_approval"

\* a continuation that clears the PR and leaves the issue behind
continueLoop_keepsIssue(D, l) ==
  updateLoop(updateLoop(D, l, "status", "running"), l, "current_pr", Null)

\* loop.ts 216-220 and 234-238
continueLoop(D, l) ==
  updateLoop(updateLoop(updateLoop(D, l, "status", "running"), l, "current_pr", Null),
             l, "current_issue", Null)

\* loop.ts 207: if (loop.current_pr), null and 0 are falsy
hasPr(row) == row.current_pr # Null /\ row.current_pr # 0

\* loop.ts 215-225 and 234-244: write the row, then startLoop(loopId) detached
resume(l) ==
  LET D == continueLoop(db, l) IN
  /\ startLoopNeedsSlot(D, l) => FreeSlots # {}
  /\ db' = D
  /\ drivers' = startLoopEntry(D, l, FALSE, drivers)

\* loop.ts 200-213: approveAndContinue up to the await of github.mergePR, or
\* to its end when there is no PR to merge
ApproveAndContinue(l) ==
  /\ IF notWaitingForApproval(db, l)
     THEN /\ last' = Call("approve", l, "throws: not waiting for approval")
          /\ UNCHANGED <<db, drivers, approving>>
     ELSE IF hasPr(db[l])
     THEN /\ approving[l] < MaxApproving
          /\ approving' = [approving EXCEPT ![l] = @ + 1]
          /\ last' = Call("approve", l, "awaits merge")
          /\ UNCHANGED <<db, drivers>>
     ELSE /\ resume(l)
          /\ last' = Call("approve", l, "ok")
          /\ UNCHANGED approving
  /\ invoked' = <<>>
  /\ UNCHANGED <<config, starting, activeProcesses, spawned>>

\* an approve that goes on whatever the merge returned
mergeAborts_never(merged) == FALSE

\* loop.ts 209: if (!merged) throw
mergeAborts(merged) == ~merged

\* loop.ts 208-225: github.mergePR settles
MergeDone(l, merged) ==
  /\ approving[l] > 0
  /\ approving' = [approving EXCEPT ![l] = @ - 1]
  /\ IF mergeAborts(merged)
     THEN /\ last' = Call("merge", l, "throws: failed to merge")
          /\ UNCHANGED <<db, drivers>>
     ELSE /\ resume(l)
          /\ last' = Call("merge", l, "ok")
  /\ invoked' = <<>>
  /\ UNCHANGED <<config, starting, activeProcesses, spawned>>

\* loop.ts 228-245
SkipAndContinue(l) ==
  /\ IF notWaitingForApproval(db, l)
     THEN /\ last' = Call("skip", l, "throws: not waiting for approval")
          /\ UNCHANGED <<db, drivers>>
     ELSE /\ resume(l)
          /\ last' = Call("skip", l, "ok")
  /\ invoked' = <<>>
  /\ UNCHANGED <<config, starting, activeProcesses, approving, spawned>>

Next ==
  \/ \E l \in LoopIds, m \in Modes, n \in IterationInputs : CreateLoop(l, m, n)
  \/ \E l \in LoopIds : StartLoopWithCallbacks(l)
  \/ \E s \in Slots, ok \in BOOLEAN, r \in BOOLEAN : WorkspaceDone(s, ok, r)
  \/ \E s \in Slots, code \in ExitCodes, out \in Outputs : ProcessClose(s, code, out)
  \/ \E s \in Slots : ProcessError(s)
  \/ \E l \in LoopIds : StopLoopProcess(l)
  \/ \E l \in LoopIds : ApproveAndContinue(l)
  \/ \E l \in LoopIds, merged \in BOOLEAN : MergeDone(l, merged)
  \/ \E l \in LoopIds : SkipAndContinue(l)

Spec == Init /\ [][Next]_vars

----------------------------------------------------------------------------
(* The start requests alone, for several loops of one repository *)

StartLoopIds == {"L1", "L2", "L3", "L4"}

\* index.ts 338-373 start_loop_for_repo, up to db.createLoop: an auto-mode
\* loop of 10 iterations, no concurrency check
StartLoopForRepo(l, canStartLoop) ==
  /\ db[l] = NoRow
  /\ IF canStartLoop
     THEN /\ db' = [db EXCEPT ![l] = createLoop("auto", 10)]
          /\ starting' = [starting EXCEPT ![l] = TRUE]
          /\ last' = Call("start_loop_for_repo", l, "ok")
     ELSE /\ last' = Call("start_loop_for_repo", l, "no permission")
          /\ UNCHANGED <<db, starting>>
  /\ invoked' = <<>>
  /\ UNCHANGED <<config, drivers, activeProcesses, approving, spawned>>

InitStart == InitFor(StartLoopIds)

NextStart ==
  \/ \E l \in StartLoopIds, m \in Modes : CreateLoop(l, m, MaxIterationInput)
  \/ \E l \in StartLoopIds, allowed \in BOOLEAN : StartLoopForRepo(l, allowed)
  \/ \E l \in StartLoopIds : StopLoopProcess(l)

SpecStart == InitStart /\ [][NextStart]_vars

----------------------------------------------------------------------------
(* Two loops side by side, in a configured installation: an approval-mode *)
(* loop L1, with the approve and skip requests it receives, next to an     *)
(* auto-mode loop L2; the workspace is always ready and every iteration   *)
(* opens a pull request or fails                                           *)

TwoLoopIds == {"L1", "L2"}
TwoLoopOutputs == { <<PrUrl(42), Hash(7)>> }

InitTwo == InitFor(TwoLoopIds) /\ ConfigOk

NextTwo ==
  \/ CreateLoop("L1", "approval", FirstIteration)
  \/ CreateLoop("L2", "auto", FirstIteration)
  \/ \E l \in TwoLoopIds : StartLoopWithCallbacks(l)
  \/ \E s \in Slots : WorkspaceDone(s, TRUE, TRUE)
  \/ \E s \in Slots, code \in ExitCodes, out \in TwoLoopOutputs : ProcessClose(s, code, out)
  \/ \E l \in TwoLoopIds : StopLoopProcess(l)
  \/ ApproveAndContinue("L1")
  \/ \E merged \in BOOLEAN : MergeDone("L1", merged)
  \/ SkipAndContinue("L1")

SpecTwo == InitTwo /\ [][NextTwo]_vars

----------------------------------------------------------------------------
(* One loop in a configured installation whose workspace is always ready   *)
(* and whose merges succeed, with no bound on the processes it spawns,     *)
(* under the scheduling that the runtime and the people answering give     *)

LiveOutputs ==
  { <<Text>>,
    <<PrUrl(42), Hash(7)>>,
    <<DoneOpen, Tok("COMPLETE", 0), DoneClose>> }

InitLive ==
  /\ config = [repo |-> TRUE, key |-> TRUE]
  /\ db = [l \in LoopIds |-> NoRow]
  /\ starting = [l \in LoopIds |-> FALSE]
  /\ drivers = [s \in Slots |-> Idle]
  /\ activeProcesses = [l \in LoopIds |-> 0]
  /\ approving = [l \in LoopIds |-> 0]
  /\ spawned = [l \in LoopIds |-> Null]
  /\ invoked = <<>>
  /\ last = [op |-> "none", loopId |-> "none", ret |-> "none", after |-> <<"none", "none">>]

NextLive ==
  \/ \E l \in LoopIds, m \in Modes, n \in 1..MaxIterationInput : CreateLoop(l, m, n)
  \/ \E l \in LoopIds : StartLoopWithCallbacks(l)
  \/ \E s \in Slots : WorkspaceDone(s, TRUE, TRUE)
  \/ \E s \in Slots, code \in ExitCodes, out \in LiveOutputs : ProcessClose(s, code, out)
  \/ \E l \in LoopIds : StopLoopProcess(l)
  \/ \E l \in LoopIds : ApproveAndContinue(l)
  \/ \E l \in LoopIds : MergeDone(l, TRUE)
  \/ \E l \in LoopIds : SkipAndContinue(l)

\* a request that answers a loop waiting for approval
Answer(l) ==
  /\ db[l].status = "waiting_approval"
  /\ ApproveAndContinue(l) \/ SkipAndContinue(l) \/ StopLoopProcess(l)

\* the start handler goes on to startLoop, every workspace setup returns,
\* every process exits, every wait for approval is answered, every merge
\* call returns
Fairness ==
  /\ \A l \in LoopIds :
       /\ WF_vars(StartLoopWithCallbacks(l))
       /\ WF_vars(Answer(l))
       /\ WF_vars(MergeDone(l, TRUE))
  /\ \A s \in Slots :
       /\ WF_vars(WorkspaceDone(s, TRUE, TRUE))
       /\ WF_vars(\E code \in ExitCodes, out \in LiveOutputs : ProcessClose(s, code, out))

SpecLive == InitLive /\ [][NextLive]_vars /\ Fairness

----------------------------------------------------------------------------
(* Properties *)

LiveProcesses(l) == {s \in Slots : drivers[s].loopId = l /\ drivers[s].pc = "process"}
ActiveDrivers(l) == {s \in Slots : drivers[s].loopId = l /\ drivers[s].pc # "idle"}
Throws(ret) == ret = "throws: not waiting for approval"

\* C1: in every reachable state the persisted iteration_current of a loop is
\* at most its iteration_max.
C1_IterationWithinMax ==
  \A l \in LoopIds : db[l] # NoRow => db[l].iteration_current <= db[l].iteration_max

\* C2: once the persisted status is complete, error or stopped, no step
\* changes it.
C2_TerminalIsFinal ==
  [][\A l \in LoopIds :
       db[l].status \in TerminalStatuses => db'[l].status = db[l].status]_vars

\* C3: at most one agent process of a loop is live (spawned and not yet
\* closed) at any instant.
C3_OneLiveProcess == \A l \in LoopIds : Cardinality(LiveProcesses(l)) <= 1

\* C4: at most one startLoop invocation of a loop is active (called and not
\* yet returned) at any instant.
C4_OneActiveDriver == \A l \in LoopIds : Cardinality(ActiveDrivers(l)) <= 1

\* C5: approveAndContinue and skipAndContinue called on a missing loop or on
\* a loop whose status is not waiting_approval throw the invalid-state
\* error, change no field of the row, request no merge and start no driver
\* invocation (hence spawn nothing); whenever they do not throw, the status
\* was waiting_approval.
C5_ApproveSkipOnlyFromWaiting ==
  [][\A l \in LoopIds :
       ((ApproveAndContinue(l) \/ SkipAndContinue(l))
          /\ (db[l] = NoRow \/ db[l].status # "waiting_approval"))
       => /\ Throws(last'.ret)
          /\ db' = db
          /\ drivers' = drivers
          /\ approving' = approving
          /\ activeProcesses' = activeProcesses
          /\ spawned' = spawned]_vars

C5_Witness ==
  \E l \in LoopIds :
    /\ last.op \in {"approve", "skip"} /\ last.loopId = l /\ Throws(last.ret)
    /\ db[l].status = "running"
    /\ ActiveDrivers(l) # {}

\* C6: the persisted iteration_current of a loop never decreases, in
\* particular not when an invocation resumed by approve or skip starts its
\* first iteration.
C6_IterationNeverDecreases ==
  [][\A l \in LoopIds :
       db[l] # NoRow => db'[l].iteration_current >= db[l].iteration_current]_vars

\* C7: over the whole life of a loop, across the initial and every resumed
\* invocation, the number of agent processes spawned for it (once there is
\* one) never exceeds its iteration_max.
C7_SpawnsWithinBudget ==
  \A l \in LoopIds : spawned[l] > 0 => spawned[l] <= db[l].iteration_max

\* C8: stopLoopProcess with a process registered signals that process,
\* removes the registry entry and leaves the status stopped; with no process
\* registered and the status pending, running, paused or waiting_approval it
\* leaves the status stopped.
C8_StopForcesStopped ==
  [][\A l \in LoopIds :
       StopLoopProcess(l) =>
         /\ activeProcesses[l] # 0 =>
              /\ drivers'[activeProcesses[l]].signalled
              /\ activeProcesses'[l] = 0
              /\ db'[l].status = "stopped"
         /\ (activeProcesses[l] = 0
               /\ db[l].status \in {"pending", "running", "paused", "waiting_approval"})
            => db'[l].status = "stopped"]_vars

C8_Witness ==
  \E l \in LoopIds, s \in Slots :
    /\ last.op = "stop" /\ last.loopId = l /\ last.ret = "true"
    /\ drivers[s].loopId = l /\ drivers[s].pc = "process" /\ drivers[s].signalled
    /\ activeProcesses[l] = 0
    /\ db[l].status = "stopped"

\* C9: once stop has set the status of a loop to stopped, no agent process
\* is spawned for that loop any more.
C9_NoSpawnAfterStop ==
  [][\A l \in LoopIds : db[l].status = "stopped" => spawned'[l] = spawned[l]]_vars

\* C10: a stopLoopProcess call that comes right after a stopLoopProcess call
\* on the same loop returns false and changes neither the row nor the
\* registry (nor any process).
C10_StopIdempotent ==
  [][\A l \in LoopIds :
       (last.op = "stop" /\ last.loopId = l /\ StopLoopProcess(l))
       => /\ last'.ret = "false"
          /\ db' = db
          /\ activeProcesses' = activeProcesses
          /\ drivers' = drivers]_vars

C10_Witness ==
  \E l \in LoopIds :
    /\ last.op = "stop" /\ last.loopId = l /\ last.ret = "false"
    /\ last.after = <<"stop", "true">>
    /\ db[l].status = "stopped"

\* C11: a skipAndContinue that finds the loop waiting for approval returns
\* normally, leaves current_pr and current_issue null and the status
\* running, and requests no merge.
C11_SkipClears ==
  [][\A l \in LoopIds :
       (SkipAndContinue(l) /\ db[l].status = "waiting_approval")
       => /\ last'.ret = "ok"
          /\ db'[l].current_pr = Null
          /\ db'[l].current_issue = Null
          /\ db'[l].status = "running"
          /\ approving' = approving]_vars

C11_Witness ==
  \E l \in LoopIds, s \in Slots :
    /\ last.op = "skip" /\ last.loopId = l /\ last.ret = "ok"
    /\ db[l].status = "running" /\ db[l].current_pr = Null /\ db[l].current_issue = Null
    /\ drivers[s].loopId = l /\ drivers[s].pc = "workspace" /\ ~drivers[s].cb

\* C12: when the merge call of an approveAndContinue fails, the call throws
\* to its caller, the row (status, current_pr, current_issue and the rest)
\* is left as it is and no driver invocation is started; and a loop still
\* waiting for approval after the failure accepts a new approve, which
\* requests the merge again.
C12_MergeFailureAborts ==
  /\ [][\A l \in LoopIds :
          MergeDone(l, FALSE)
          => /\ last'.ret = "throws: failed to merge"
             /\ db' = db
             /\ drivers' = drivers
             /\ spawned' = spawned]_vars
  /\ [](\A l \in LoopIds :
          (last.op = "merge" /\ last.loopId = l /\ last.ret = "throws: failed to merge"
             /\ db[l].status = "waiting_approval")
          => ENABLED (ApproveAndContinue(l) /\ last'.ret = "awaits merge"))

C12_Witness ==
  \E l \in LoopIds :
    /\ last.op = "merge" /\ last.loopId = l /\ last.ret = "throws: failed to merge"
    /\ db[l].status = "waiting_approval" /\ db[l].current_pr = 42
    /\ ActiveDrivers(l) = {}

\* The outputs of Outputs by what they contain
SentinelOutputs ==
  { <<DoneOpen, Tok("COMPLETE", 0), DoneClose>>,
    <<Text, DoneOpen, Tok("NO_TASKS", 0), DoneClose>>,
    <<Hash(7), PrUrl(42), DoneOpen, Tok("COMPLETE", 0), DoneClose>> }
PrOnlyOutputs == { <<PrUrl(42), Hash(7)>>, <<Text, PrUrl(42)>> }
IssueIn(out) == IF out = <<PrUrl(42), Hash(7)>> THEN 7 ELSE Null
Called(hooks, h) == \E k \in DOMAIN hooks : hooks[k] = h
Loop(s) == drivers[s].loopId

\* what C13 says of the row, the invocation and the processes
C13_Effects(s, out) ==
  /\ db'[Loop(s)].current_pr = 42
  /\ db'[Loop(s)].current_issue = IssueIn(out)
  /\ db'[Loop(s)].status = "waiting_approval"
  /\ drivers'[s] = Idle
  /\ spawned' = spawned

\* C13: in approval mode, when a successful iteration prints a pull-request
\* URL and no completion sentinel, the driver stores current_pr and
\* current_issue, sets the status waiting_approval, calls onWaitingApproval
\* and returns: it spawns no further process.
C13_ApprovalSuspends ==
  [][\A s \in Slots, out \in PrOnlyOutputs :
       (ProcessClose(s, 0, out) /\ drivers[s].mode = "approval")
       => C13_Effects(s, out) /\ Called(invoked', "onWaitingApproval")]_vars

C15_Effects(s) ==
  /\ db'[Loop(s)].status = "complete"
  /\ db'[Loop(s)].current_pr = db[Loop(s)].current_pr
  /\ db'[Loop(s)].current_issue = db[Loop(s)].current_issue
  /\ db'[Loop(s)].iteration_current = db[Loop(s)].iteration_current
  /\ drivers'[s] = Idle
  /\ spawned' = spawned

\* C15: when the output of an iteration holds a completion sentinel, the
\* driver marks the loop complete, calls onComplete and returns without a
\* further iteration, whatever the exit code, the mode, the iterations left
\* and a PR URL in the output (current_pr and current_issue are not written).
C15_SentinelCompletes ==
  [][\A s \in Slots, code \in ExitCodes, out \in SentinelOutputs :
       ProcessClose(s, code, out)
       => C15_Effects(s) /\ Called(invoked', "onComplete")]_vars

\* what C16 says of the row, the invocation and the processes
C16_Effects(s, out) ==
  /\ db'[Loop(s)].status = "error"
  /\ db'[Loop(s)].error = [msg |-> "Droid exited with code", code |-> 1, tail |-> out]
  /\ drivers'[s] = Idle
  /\ spawned' = spawned

\* C16: when the process exits nonzero and its output holds no completion
\* sentinel, the driver marks the loop error, stores the failure message
\* (with the tail of the output) in the error field, calls onError and
\* returns: the iteration is not run again.
C16_FailureIsFatal ==
  [][\A s \in Slots, out \in Outputs \ SentinelOutputs :
       ProcessClose(s, 1, out)
       => C16_Effects(s, out) /\ Called(invoked', "onError")]_vars

\* the closes that end the last permitted iteration of an invocation with
\* nothing to complete, suspend or fail on
EndsLastIteration(s, out) ==
  /\ ProcessClose(s, 0, out)
  /\ out = <<Text>> \/ (out \in PrOnlyOutputs /\ drivers[s].mode = "auto")
  /\ drivers[s].i = drivers[s].iteration_max

\* what C17 says of the row when the status is running at the loop's exit
C17_Effects(s) ==
  /\ db'[Loop(s)].status = "complete"
  /\ drivers'[s] = Idle
  /\ spawned' = spawned

\* C17: when an invocation has run its last permitted iteration without
\* completing, suspending or failing, then if the status is running it
\* marks the loop complete and calls onComplete, and otherwise it leaves
\* the status alone and calls none of onComplete, onError, onWaitingApproval.
C17_IterationLimit ==
  [][\A s \in Slots, out \in Outputs :
       EndsLastIteration(s, out)
       => IF db[Loop(s)].status = "running"
          THEN C17_Effects(s) /\ Called(invoked', "onComplete")
          ELSE /\ db'[Loop(s)].status = db[Loop(s)].status
               /\ drivers'[s] = Idle
               /\ ~Called(invoked', "onComplete")
               /\ ~Called(invoked', "onError")
               /\ ~Called(invoked', "onWaitingApproval")]_vars

\* C18: a run is taken for a success (runIteration resolves) exactly when
\* the exit code is zero or the output holds one of the two completion
\* sentinels; every other run is a failure that leaves the loop in error.
C18_SuccessRule ==
  [][\A s \in Slots, code \in ExitCodes, out \in Outputs :
       ProcessClose(s, code, out)
       => LET success == code = 0 \/ out \in SentinelOutputs IN
          /\ last'.ret = (IF success THEN "resolve" ELSE "reject")
          /\ ~success => db'[Loop(s)].status = "error"]_vars

\* C19: whenever the status of a loop changes from waiting_approval to
\* another status, current_pr and current_issue are null afterwards.
C19_ClearedOnLeavingApproval ==
  [][\A l \in LoopIds :
       (db[l].status = "waiting_approval" /\ db'[l].status # "waiting_approval")
       => db'[l].current_pr = Null /\ db'[l].current_issue = Null]_vars

Times(hooks, h) == Cardinality({k \in DOMAIN hooks : hooks[k] = h})
HookOf(status) ==
  CASE status = "complete" -> "onComplete"
    [] status = "error" -> "onError"
    [] status = "waiting_approval" -> "onWaitingApproval"

\* C20: every step in which the status of a loop becomes complete, error
\* or waiting_approval calls the matching hook (onComplete, onError,
\* onWaitingApproval) exactly once, and these hooks are called in no other
\* step.
C20_ReportedExactlyOnce ==
  [][\A l \in LoopIds, st \in {"complete", "error", "waiting_approval"} :
       IF db'[l].status = st /\ db[l].status # st
       THEN Times(invoked', HookOf(st)) = 1
       ELSE db'[l].status # st => Times(invoked', HookOf(st)) = 0]_vars

\* C21: when ensureWorkspace fails in a driver invocation, initial or
\* resumed, the invocation leaves the loop in status error (never pending or
\* running with no active driver).
C21_WorkspaceFailureIsError ==
  [][\A s \in Slots :
       WorkspaceDone(s, FALSE, TRUE) => db'[Loop(s)].status = "error"]_vars

\* C22: startLoop on a loop whose repository is not configured, or whose
\* starter has no Factory key, throws before its first await: the row is
\* unchanged (status included), ensureWorkspace is not called, no
\* invocation stays active and no process is spawned or registered.
C22_MissingConfigFailsEarly ==
  [][\A l \in LoopIds :
       (StartLoopWithCallbacks(l) /\ db[l] # NoRow /\ ~(config.repo /\ config.key))
       => /\ last'.ret = "throws"
          /\ db' = db
          /\ drivers' = drivers
          /\ activeProcesses' = activeProcesses
          /\ spawned' = spawned]_vars

C22_Witness ==
  \E l \in LoopIds :
    /\ last.op = "startLoop" /\ last.loopId = l /\ last.ret = "throws"
    /\ config.repo /\ ~config.key
    /\ db[l].status = "pending" /\ db[l].iteration_current = 0
    /\ ActiveDrivers(l) = {} /\ spawned[l] = 0

\* C24: a step in which an observer callback throws leaves the row (status,
\* iteration_current, current_pr, current_issue) as the same step does when
\* the callback returns.  Of the callbacks of index.ts only onStart can
\* throw into startLoop: the others are async functions, whose failure is a
\* rejected promise that startLoop does not await.
C24_NotificationIndependent ==
  [][\A s \in Slots :
       WorkspaceDone(s, TRUE, FALSE) => db' = started(db, s).db]_vars

\* the closes after which the invocation comes to the head of its next
\* iteration: a resolved run with no sentinel and, in approval mode, no
\* pull-request URL, with iterations left
ReachesBoundary(s, code, out) ==
  /\ code = 0 \/ out = <<DoneOpen, Tok("FAILED", 0), DoneClose>>
  /\ out \notin SentinelOutputs
  /\ out \in PrOnlyOutputs => drivers[s].mode = "auto"
  /\ drivers[s].i < drivers[s].iteration_max
  /\ ProcessClose(s, code, out)

\* C25: when the status read at the head of an iteration is stopped, paused
\* or waiting_approval, the invocation returns without error: it spawns no
\* process, leaves iteration_current and the status as they are (it does
\* not mark the loop complete) and calls none of onComplete, onError,
\* onWaitingApproval.
C25_HaltsAtBoundary ==
  [][\A s \in Slots, code \in ExitCodes, out \in Outputs :
       (drivers[s].pc = "process"
          /\ db[Loop(s)].status \in {"stopped", "paused", "waiting_approval"}
          /\ ReachesBoundary(s, code, out))
       => /\ drivers'[s] = Idle
          /\ spawned' = spawned
          /\ db'[Loop(s)].iteration_current = db[Loop(s)].iteration_current
          /\ db'[Loop(s)].status = db[Loop(s)].status
          /\ db'[Loop(s)].error = db[Loop(s)].error
          /\ ~Called(invoked', "onComplete")
          /\ ~Called(invoked', "onError")
          /\ ~Called(invoked', "onWaitingApproval")]_vars

C25_Witness ==
  \E l \in LoopIds :
    /\ last.op = "close" /\ last.loopId = l /\ last.ret = "resolve"
    /\ last.after = <<"stop", "true">>
    /\ invoked = <<"onIteration">>
    /\ db[l].status = "stopped"
    /\ db[l].iteration_current = 1 /\ db[l].iteration_max = 2
    /\ spawned[l] = 1
    /\ ActiveDrivers(l) = {}

\* the outputs of Outputs with no completion sentinel and no pull-request URL
PlainOutputs == { <<Text>>, <<DoneOpen, Tok("FAILED", 0), DoneClose>> }

\* C26: when a process exits with code 0 and its output holds neither a
\* completion sentinel nor a pull-request URL, the driver leaves
\* current_pr and current_issue as they are and never marks the loop error;
\* with iterations left and a status that does not halt it, it leaves the
\* status as it is and starts the next iteration; after the last iteration
\* it leaves the status as it is, or complete if it was running.
C26_NoPatternProceeds ==
  [][\A s \in Slots, out \in PlainOutputs :
       ProcessClose(s, 0, out)
       => LET row == db[Loop(s)]
              row2 == db'[Loop(s)] IN
          /\ row2.current_pr = row.current_pr
          /\ row2.current_issue = row.current_issue
          /\ row2.error = row.error
          /\ ~Called(invoked', "onError")
          /\ IF drivers[s].i < drivers[s].iteration_max
                /\ row.status \notin {"stopped", "paused", "waiting_approval"}
             THEN /\ row2.status = row.status
                  /\ row2.iteration_current = drivers[s].i + 1
                  /\ drivers'[s].pc = "process" /\ drivers'[s].i = drivers[s].i + 1
                  /\ spawned'[Loop(s)] = spawned[Loop(s)] + 1
             ELSE /\ row2.status = (IF row.status = "running" THEN "complete" ELSE row.status)
                  /\ drivers'[s] = Idle
                  /\ spawned' = spawned]_vars

C26_Witness ==
  \E l \in LoopIds, s \in Slots :
    /\ last.op = "close" /\ last.loopId = l /\ last.ret = "resolve"
    /\ invoked = <<"onIteration">>
    /\ db[l].status = "running"
    /\ db[l].current_pr = Null /\ db[l].current_issue = Null
    /\ db[l].iteration_current = 2
    /\ drivers[s].loopId = l /\ drivers[s].pc = "process" /\ drivers[s].i = 2
    /\ spawned[l] = 2

\* C27: every step that spawns an agent process is the continuation of an
\* ensureWorkspace call, so a workspace sync lies between the close of one
\* process of a loop and the spawn of the next.
C27_SyncBeforeEverySpawn ==
  [][\A l \in LoopIds :
       spawned'[l] > spawned[l]
       => last'.op = "ensureWorkspace" /\ last'.loopId = l]_vars

\* C28: a process is in the registry under its loop id from its spawn on;
\* the close or spawn error of a process leaves the entry of another live
\* process alone; so every live process of a loop that no stop has
\* signalled is the registry entry of its loop.
C28_RegistryTracksLiveProcess ==
  /\ [][\A s \in Slots :
          (drivers[s].pc # "process" /\ drivers'[s].pc = "process")
          => activeProcesses'[drivers'[s].loopId] = s]_vars
  /\ [][\A s \in Slots, code \in ExitCodes, out \in Outputs :
          ((ProcessClose(s, code, out) \/ ProcessError(s))
             /\ activeProcesses[Loop(s)] \notin {0, s})
          => activeProcesses'[Loop(s)] = activeProcesses[Loop(s)]]_vars
  /\ [](\A l \in LoopIds : \A s \in LiveProcesses(l) :
          ~drivers[s].signalled => activeProcesses[l] = s)

\* C29: a stopLoopProcess that finds no registry entry returns normally,
\* signals nothing and leaves the registry alone; when the status is
\* pending, running, paused or waiting_approval it writes stopped (and
\* nothing else but the completion stamp) and returns true.
C29_StopWithoutProcess ==
  [][\A l \in LoopIds :
       (StopLoopProcess(l) /\ activeProcesses[l] = 0)
       => /\ last'.ret \in {"true", "false"}
          /\ drivers' = drivers
          /\ activeProcesses' = activeProcesses
          /\ spawned' = spawned
          /\ (db[l] # NoRow
                /\ db[l].status \in {"pending", "running", "paused", "waiting_approval"})
             => /\ last'.ret = "true"
                /\ db' = [db EXCEPT ![l].status = "stopped", ![l].completed = TRUE]]_vars

C29_Witness ==
  \E l \in LoopIds :
    /\ last.op = "stop" /\ last.loopId = l /\ last.ret = "true"
    /\ last.after = <<"close", "resolve">>
    /\ db[l].status = "stopped" /\ db[l].current_pr = 42
    /\ spawned[l] = 1
    /\ LiveProcesses(l) = {} /\ ActiveDrivers(l) = {}

\* C23: whatever start requests arrive (modal submissions and
\* start_loop_for_repo buttons), the active loops (pending, running, paused,
\* waiting_approval) of one repository number at most max_per_repo and the
\* active loops in all at most max_parallel_loops.
C23_ConcurrencyCeiling ==
  /\ Cardinality(getLoopsForRepo(db)) <= max_per_repo
  /\ Cardinality(getActiveLoops(db)) <= max_parallel_loops

\* the steps made for loop a: a call of startLoop, approve, skip or stop on
\* it, and every later step of its startLoop and approve calls
StepOf(a) ==
  \/ StartLoopWithCallbacks(a)
  \/ StopLoopProcess(a)
  \/ ApproveAndContinue(a)
  \/ SkipAndContinue(a)
  \/ \E merged \in BOOLEAN : MergeDone(a, merged)
  \/ \E s \in Slots :
       /\ drivers[s].loopId = a
       /\ \/ WorkspaceDone(s, TRUE, TRUE)
          \/ \E code \in ExitCodes, out \in TwoLoopOutputs : ProcessClose(s, code, out)

\* the row, the registry entry, the invocations and the processes of loop
\* b are what they were (no process of b is signalled)
Untouched(b) ==
  /\ db'[b] = db[b]
  /\ activeProcesses'[b] = activeProcesses[b]
  /\ \A s \in Slots : drivers[s].loopId = b => drivers'[s] = drivers[s]

\* C30: a step made for loop a changes neither the row of another loop b,
\* nor b's registry entry, nor b's invocations and processes: every step
\* leaves b untouched or is not a step made for a.
C30_LoopsIndependent ==
  [][\A a \in TwoLoopIds : \A b \in TwoLoopIds \ {a} :
       Untouched(b) \/ ~StepOf(a)]_vars

C30_Witness ==
  /\ last.op = "stop" /\ last.loopId = "L1" /\ last.ret = "true"
  /\ db["L1"].status = "stopped" /\ activeProcesses["L1"] = 0
  /\ \E s \in Slots : drivers[s].loopId = "L1" /\ drivers[s].signalled
  /\ db["L2"].status = "running"
  /\ \E s \in Slots :
       /\ activeProcesses["L2"] = s
       /\ drivers[s].loopId = "L2" /\ drivers[s].pc = "process" /\ ~drivers[s].signalled

\* C31: when the merge of an approveAndContinue succeeds and the status is
\* no longer waiting_approval (a stop or a skip came while the merge was
\* pending), the approve writes nothing to the row and starts no driver
\* invocation.
C31_ApproveRechecksStatus ==
  [][\A l \in LoopIds :
       (approving[l] > 0 /\ db[l].status # "waiting_approval" /\ MergeDone(l, TRUE))
       => db' = db /\ drivers' = drivers]_vars

\* C32: under the fairness of SpecLive, every loop that was started
\* eventually has a terminal status (complete, error or stopped), in auto
\* mode and in approval mode.
C32_EventuallyTerminal ==
  \A l \in LoopIds : (db[l] # NoRow) ~> (db[l].status \in TerminalStatuses)

\* C33: a loop whose mode is auto never has the status waiting_approval.
C33_AutoNeverWaits ==
  \A l \in LoopIds :
    (db[l] # NoRow /\ db[l].mode = "auto") => db[l].status # "waiting_approval"

\* an auto-mode loop whose agent has just opened a pull request
C33_Witness ==
  \E l \in LoopIds :
    /\ db[l] # NoRow /\ db[l].mode = "auto"
    /\ last.op = "close" /\ last.loopId = l
    /\ db[l].current_pr = 42

\* C34: while the status of a loop is waiting_approval, no agent process of
\* that loop is live.
C34_NoProcessWhileWaiting ==
  \A l \in LoopIds :
    (db[l] # NoRow /\ db[l].status = "waiting_approval") => LiveProcesses(l) = {}

\* C35: no workspace set-up (clone or fetch and hard reset) is under way in
\* the directory of a repository while an agent process runs in it; all
\* loops of the model belong to one repository.
C35_NoSyncUnderProcess ==
  \A s \in Slots, t \in Slots :
    ~(drivers[s].pc = "workspace" /\ drivers[t].pc = "process")
====
